---- MODULE Spec2Model ----
\* Review acquisition engine (src/main.py, src/src/layer1/scraper.py):
\* window slicing, the per-axis paginated fetch loop, the multi-sort
\* orchestrator, the rating-balanced selector and the multi-slice driver.
EXTENDS Integers, Sequences, FiniteSets, TLC

VARIABLES
    pc,               \* position of the single thread of control
    args,             \* inputs of the pure function under check (SpecSlices, SpecSelect)
    ret,              \* its return value
    per_rating_target,\* ScraperConfig.per_rating_target
    max_reviews,      \* ScraperConfig.max_reviews
    sort_sequence,    \* fetch_reviews: sort_sequence
    window_slices,    \* run_pipeline: window_slices
    slice_i,          \* _fetch_multi_window: idx of the slice being fetched
    combined,         \* _fetch_multi_window: combined (dict, insertion ordered)
    segment,          \* _fetch_multi_window: segment, the last fetch_reviews result
    window_start,     \* fetch_reviews: window_start
    window_end,       \* fetch_reviews: window_end
    mode_i,           \* fetch_reviews: position in sort_sequence
    combined_records, \* fetch_reviews: combined_records (dict, insertion ordered)
    window_counts,    \* fetch_reviews: rating_counts (in-window counts)
    collected,        \* fetch: collected
    seen_ids,         \* fetch: seen_ids
    rating_counts,    \* fetch: rating_counts (running counts of the loop)
    next_token,       \* fetch: next_token
    resp,             \* the response body of the last page request
    stop,             \* why the fetch loop left the while statement
    stats,            \* fetch: FetchStats.records, the result of the axis
    request,          \* fetch: the arguments of the last _fetch_page call
    warned,           \* fetch_reviews: the for statement's else clause ran
    requested,        \* a page request has been sent to the upstream
    cli,              \* run_pipeline: the parsed command line (args)
    saved,            \* save_reviews: the files of output_dir
    weekly_files,     \* _save_weekly_buckets: the files of weekly_output_dir
    shortfall         \* _limit_per_rating: ratings its last call warned about

vars == <<pc, args, ret, per_rating_target, max_reviews, sort_sequence,
          window_slices, slice_i, combined, segment, window_start, window_end,
          mode_i, combined_records, window_counts, collected, seen_ids,
          rating_counts, next_token, resp, stop, stats, request, warned,
          requested, cli, saved, weekly_files, shortfall>>

pipelineVars == <<per_rating_target, max_reviews, sort_sequence,
          window_slices, slice_i, combined, segment, window_start, window_end,
          mode_i, combined_records, window_counts, collected, seen_ids,
          rating_counts, next_token, resp, stop, stats, request, warned,
          requested, cli, saved, weekly_files>>

\* The locals of _fetch_multi_window, fetch_reviews and fetch.
pipelineLocals == <<slice_i, combined, segment, window_start, window_end,
          mode_i, combined_records, window_counts, collected, seen_ids,
          rating_counts, next_token, resp, stop, stats, request, warned>>

----------------------------------------------------------------------------
\* Bounds of the model.

\* Instants are integers; one calendar day is TicksPerDay instants.
TicksPerDay == 2

\* SpecSlices: the latest instant of a window and the largest slice_days.
MaxTick == 10
MaxSliceDays == 3

None == "None"

Ratings == 1..5

Min(a, b) == IF a <= b THEN a ELSE b
Max(a, b) == IF a >= b THEN a ELSE b

\* timedelta(days=n)
timedelta(n) == n * TicksPerDay

----------------------------------------------------------------------------
\* Window Planner (src/main.py).

RECURSIVE SliceLoop(_, _, _, _)
SliceLoop(cursor, end, step, slices) ==
    IF cursor <= end
    THEN LET slice_end == Min(cursor + step, end)
         IN  SliceLoop(slice_end + timedelta(1), end, step,
                       Append(slices, <<cursor, slice_end>>))
    ELSE slices

\* Mutant of _split_into_slices: the step is slice_days days, not
\* slice_days - 1.
SplitStepOffByOne(start, end, slice_days) ==
    SliceLoop(start, end, timedelta(slice_days), <<>>)

_split_into_slices(start, end, slice_days) ==
    SliceLoop(start, end, timedelta(slice_days - 1), <<>>)

\* Optional[datetime]: none, or a wall-clock reading in instants that is
\* naive (aware = FALSE) or carries a UTC offset in instants.
NoDate == [none |-> TRUE, wall |-> 0, aware |-> FALSE, utcoffset |-> 0]

Datetime(wall, aware, utcoffset) ==
    [none |-> FALSE, wall |-> wall, aware |-> aware, utcoffset |-> utcoffset]

\* A datetime in UTC: its wall-clock reading is its instant.
Utc(instant) == Datetime(instant, TRUE, 0)

\* Mutant of _ensure_utc: an aware value has its zone replaced, not converted.
EnsureUtcReplaceOnly(dt) == Utc(dt.wall)

\* _ensure_utc (scraper.py): replace(tzinfo=utc) for a naive value,
\* astimezone(utc) for an aware one.
_ensure_utc(dt) ==
    IF ~dt.aware THEN Utc(dt.wall) ELSE Utc(dt.wall - dt.utcoffset)

\* ScraperConfig.date_window; now is the reading of datetime.now(timezone.utc).
\* The result is [raised, start, end]; raised: ValueError.
date_window(lookback_days, min_offset_days, reference_date, start_date, end_date, now) ==
    IF ~start_date.none /\ ~end_date.none
    THEN LET start == _ensure_utc(start_date)
             end   == _ensure_utc(end_date)
         IN  IF start.wall > end.wall
             THEN [raised |-> TRUE, start |-> NoDate, end |-> NoDate]
             ELSE [raised |-> FALSE, start |-> start, end |-> end]
    ELSE LET reference == _ensure_utc(IF reference_date.none THEN Utc(now)
                                      ELSE reference_date)
             end   == reference.wall - timedelta(min_offset_days)
             start == end - timedelta(lookback_days)
         IN  [raised |-> FALSE, start |-> Utc(start), end |-> Utc(end)]

\* Python's  a or b  on integers and None (None is written 0: both are falsy).
PyOr(a, b) == IF a # 0 THEN a ELSE b

\* Defaults of the environment (main.py lines 317, 319, 360).
LookbackDaysDefault == 28
MinOffsetDaysDefault == 7
SliceDaysDefault == 7

\* _build_scraper_config, lines 316-319: the command line value, or the
\* value of the environment variable (its default when it is unset).
_build_scraper_config(cl) ==
    [lookback_days   |-> PyOr(cl.lookback_days, cl.REVIEW_LOOKBACK_DAYS),
     min_offset_days |-> PyOr(cl.min_offset_days, cl.REVIEW_MIN_OFFSET_DAYS)]

\* A date given on the command line: not given, ISO text denoting dt, or text
\* datetime.fromisoformat rejects.
NoValue == [given |-> FALSE, iso |-> TRUE, dt |-> NoDate]
DateText(dt) == [given |-> TRUE, iso |-> TRUE, dt |-> dt]
BadDateText == [given |-> TRUE, iso |-> FALSE, dt |-> NoDate]

\* _parse_cli_date: [exit, date]; exit: SystemExit.
_parse_cli_date(value) ==
    IF ~value.given THEN [exit |-> FALSE, date |-> NoDate]
    ELSE IF ~value.iso THEN [exit |-> TRUE, date |-> NoDate]
    ELSE [exit |-> FALSE,
          date |-> IF ~value.dt.aware THEN Utc(value.dt.wall)
                   ELSE Utc(value.dt.wall - value.dt.utcoffset)]

\* One entry of --window-slices after split(","): blank, without a colon, or
\* START:END with two date texts.
SliceChunk(start, end) ==
    [blank |-> FALSE, colon |-> TRUE, start |-> start, end |-> end]
BlankChunk == [SliceChunk(NoValue, NoValue) EXCEPT !.blank = TRUE]
NoColonChunk == [SliceChunk(NoValue, NoValue) EXCEPT !.colon = FALSE]

SlicesExit == [exit |-> TRUE, slices |-> <<>>]

\* _parse_window_slices, lines 406-420: [exit, slices]; exit: SystemExit.
RECURSIVE ParseSlicesLoop(_, _)
ParseSlicesLoop(chunks, slices) ==
    IF chunks = <<>> THEN [exit |-> FALSE, slices |-> slices]
    ELSE LET chunk    == Head(chunks)
             start_dt == _parse_cli_date(chunk.start)
             end_dt   == _parse_cli_date(chunk.end)
         IN  IF chunk.blank THEN ParseSlicesLoop(Tail(chunks), slices)
             ELSE IF ~chunk.colon THEN SlicesExit
             ELSE IF start_dt.exit \/ end_dt.exit THEN SlicesExit
             ELSE IF start_dt.date.none \/ end_dt.date.none THEN SlicesExit
             ELSE IF start_dt.date.wall > end_dt.date.wall THEN SlicesExit
             ELSE ParseSlicesLoop(Tail(chunks),
                      Append(slices, <<start_dt.date.wall, end_dt.date.wall>>))

_parse_window_slices(raw) == ParseSlicesLoop(raw, <<>>)

\* _build_window_slices: [error, slices]; error is "none", "system_exit" or
\* "value_error".  An option that was not given is the empty list of chunks.
_build_window_slices(cl) ==
    IF cl.window_slices # <<>>
    THEN LET parsed == _parse_window_slices(cl.window_slices)
         IN  [error  |-> IF parsed.exit THEN "system_exit" ELSE "none",
              slices |-> parsed.slices]
    ELSE LET reference_date == _parse_cli_date(cl.reference_date)
             start_override == _parse_cli_date(cl.start_date)
             end_override   == _parse_cli_date(cl.end_date)
             config         == _build_scraper_config(cl)
             window         == date_window(config.lookback_days,
                                   config.min_offset_days, reference_date.date,
                                   start_override.date, end_override.date, cl.now)
             slice_days     == Max(1, PyOr(cl.slice_days, SliceDaysDefault))
         IN  IF reference_date.exit \/ start_override.exit \/ end_override.exit
             THEN [error |-> "system_exit", slices |-> <<>>]
             ELSE IF window.raised
             THEN [error |-> "value_error", slices |-> <<>>]
             ELSE [error  |-> "none",
                   slices |-> _split_into_slices(window.start.wall,
                                  window.end.wall, slice_days)]

----------------------------------------------------------------------------
\* Rating-Balanced Selector and its helpers (src/src/layer1/scraper.py).
\* A ReviewRecord is [review_id, rating, date]; a list is a sequence.

\* min(max(record.rating, 1), 5)
Bucket(rating) == Min(Max(rating, 1), 5)

\* Mutant of SortedByDateDesc: the records are taken in list order.
ListOrder(records) == records

\* sorted(records, key=lambda r: r.date, reverse=True): stable, so records
\* of equal date keep their relative order.
RECURSIVE SortedByDateDesc(_)
SortedByDateDesc(records) ==
    IF records = <<>> THEN <<>>
    ELSE LET n    == Len(records)
             acc  == SortedByDateDesc(SubSeq(records, 1, n - 1))
             r    == records[n]
             k    == Cardinality({i \in 1..Len(acc) : acc[i].date >= r.date})
         IN  SubSeq(acc, 1, k) \o <<r>> \o SubSeq(acc, k + 1, Len(acc))

\* Mutant of _filter_by_window: only the upper end of the window is tested.
FilterUpperEndOnly(recs, wstart, wend) ==
    SelectSeq(recs, LAMBDA record : record.date <= wend)

_filter_by_window(recs, wstart, wend) ==
    SelectSeq(recs, LAMBDA record : wstart <= record.date /\ record.date <= wend)

_empty_rating_counts == [score \in Ratings |-> 0]

_count_by_rating(records) ==
    [score \in Ratings |->
        Cardinality({i \in 1..Len(records) : Bucket(records[i].rating) = score})]

\* Mutant of _targets_met: any() in place of all().
TargetsMetAny(counts, target) ==
    IF target <= 0 THEN TRUE
    ELSE \E score \in Ratings : counts[score] >= target

_targets_met(counts, target) ==
    IF target <= 0 THEN TRUE
    ELSE \A score \in Ratings : counts[score] >= target

\* Mutant of QuotaLeft: off by one, a bucket admits target + 1 records.
QuotaLeftOffByOne(remaining) == remaining >= 0

\* The quota test of _limit_per_rating (line 473).
QuotaLeft(remaining) == remaining > 0

\* Mutant of AllQuotasUsed: any() in place of all().
AnyQuotaUsed(per_rating_remaining) ==
    \E score \in Ratings : per_rating_remaining[score] = 0

\* The break test of _limit_per_rating (line 476).
AllQuotasUsed(per_rating_remaining) ==
    \A score \in Ratings : per_rating_remaining[score] = 0

\* The for statement of _limit_per_rating: what it leaves in selected and in
\* per_rating_remaining.
RECURSIVE LimitLoop(_, _, _, _)
LimitLoop(srt, i, per_rating_remaining, selected) ==
    IF i > Len(srt)
    THEN [selected |-> selected, per_rating_remaining |-> per_rating_remaining]
    ELSE LET record == srt[i]
             rating == Bucket(record.rating)
             admit  == QuotaLeft(per_rating_remaining[rating])
             rem2   == IF admit
                       THEN [per_rating_remaining EXCEPT ![rating] = @ - 1]
                       ELSE per_rating_remaining
             sel2   == IF admit THEN Append(selected, record) ELSE selected
         IN  IF AllQuotasUsed(rem2)
             THEN [selected |-> sel2, per_rating_remaining |-> rem2]
             ELSE LimitLoop(srt, i + 1, rem2, sel2)

\* _limit_per_rating with targets: lines 469-477.
LimitResult(records, target) ==
    LimitLoop(SortedByDateDesc(records), 1, [score \in Ratings |-> target], <<>>)

_limit_per_rating(records, target) ==
    IF target <= 0 THEN SortedByDateDesc(records)
    ELSE LimitResult(records, target).selected

\* The ratings _limit_per_rating logs "Only %s reviews available for rating
\* %s within window." for (lines 479-485); none on the early return.
ShortfallWarnings(records, target) ==
    IF target <= 0 THEN {}
    ELSE {rating \in Ratings :
            LimitResult(records, target).per_rating_remaining[rating] > 0}

----------------------------------------------------------------------------
\* Paginated Batch Fetcher: decoding one page (src/src/layer1/scraper.py).
\*
\* A response is described by the shape of each layer the decoder walks:
\*   transport  "ok" | "error"      (requests.RequestException)
\*   prefix     does RESPONSE_PATTERN match
\*   outer      shape of json.loads(match.group(1))
\*   field      shape of outer[0][2]
\*   inner      shape of json.loads(outer[0][2])
\*   reviews    shape of inner[0], raws its items when it is a list
\*   last       shape of inner[-1], token its last item
\* A raw item is [shape, review_id, rating, date].

Raw(record) == [shape |-> "ok", review_id |-> record.review_id,
                rating |-> record.rating, date |-> record.date]

\* _record_from_raw: "record" (a ReviewRecord), "none" (dropped) or "raise".
_record_from_raw(raw) ==
    CASE raw.shape \in {"short", "null", "bad_rating"}
           -> [status |-> "none"]     \* IndexError, TypeError, ValueError caught
      [] raw.shape = "object"
           -> [status |-> "raise"]    \* KeyError on raw[0]
      [] raw.shape = "name_not_string"
           -> [status |-> "raise"]    \* AttributeError on .strip()
      [] raw.shape \in {"no_id", "no_timestamp"}
           -> [status |-> "none"]     \* if not review_id or not timestamp
      [] raw.shape = "bad_timestamp"
           -> [status |-> "raise"]    \* datetime.fromtimestamp outside the try
      [] OTHER
           -> [status |-> "record",
               record |-> [review_id |-> raw.review_id, rating |-> raw.rating,
                           date |-> raw.date]]

\* _parse_response: [raised, reviews_shape, reviews, token_shape, token].
ParseEmpty == [raised |-> FALSE, reviews_shape |-> "list", reviews |-> <<>>,
               token_shape |-> "absent", token |-> None]
ParseRaise == [raised |-> TRUE, reviews_shape |-> "list", reviews |-> <<>>,
               token_shape |-> "absent", token |-> None]

\* next_token = inner[-1][-1] under except (IndexError, TypeError)
ParseToken(payload, reviews_shape, reviews) ==
    CASE payload.last \in {"null", "scalar", "empty_list"}
           -> [raised |-> FALSE, reviews_shape |-> reviews_shape,
               reviews |-> reviews, token_shape |-> "absent", token |-> None]
      [] payload.last = "object"
           -> ParseRaise              \* KeyError is not caught
      [] payload.last = "non_string"
           -> [raised |-> FALSE, reviews_shape |-> reviews_shape,
               reviews |-> reviews, token_shape |-> "non_string", token |-> None]
      [] OTHER
           -> [raised |-> FALSE, reviews_shape |-> reviews_shape,
               reviews |-> reviews, token_shape |-> "string",
               token |-> payload.token]

\* The handler set of the try around json.loads(outer[0][2]).
InnerDecodeCaught(field) == field \in {"not_string", "invalid_json"}

_parse_response(payload) ==
    IF ~payload.prefix THEN ParseEmpty
    ELSE IF payload.outer = "invalid_json" THEN ParseRaise   \* json.loads(outer)
    ELSE IF payload.outer = "empty" THEN ParseEmpty          \* not outer
    ELSE IF payload.outer \in {"object", "scalar"} THEN ParseRaise   \* outer[0]
    ELSE IF payload.outer = "elem_scalar" THEN ParseRaise    \* len(outer[0])
    ELSE IF payload.outer = "short" THEN ParseEmpty          \* len(outer[0]) < 3
    ELSE IF payload.outer = "elem_object" THEN ParseRaise    \* outer[0][2]
    ELSE IF payload.field # "json"
         THEN (IF InnerDecodeCaught(payload.field) THEN ParseEmpty ELSE ParseRaise)
    ELSE IF payload.inner \in {"empty_list", "null"}
         THEN ParseEmpty                                     \* reviews = []
    ELSE IF payload.inner = "empty_object" THEN ParseRaise   \* inner[-1]: KeyError
    ELSE IF payload.inner \in {"object", "scalar"} THEN ParseRaise   \* inner[0]
    ELSE ParseToken(payload, payload.reviews, payload.raws)

RECURSIVE DecodeRaws(_, _)
DecodeRaws(raws, acc) ==
    IF raws = <<>> THEN [raised |-> FALSE, records |-> acc]
    ELSE LET d == _record_from_raw(Head(raws))
         IN  CASE d.status = "raise" -> [raised |-> TRUE, records |-> <<>>]
               [] d.status = "none"  -> DecodeRaws(Tail(raws), acc)
               [] OTHER -> DecodeRaws(Tail(raws), Append(acc, d.record))

\* Mutant of OnRequestException: the exception is not caught.
RequestExceptionEscapes == [raised |-> TRUE, records |-> <<>>, next_token |-> None]

\* _fetch_page, lines 384-386: except requests.RequestException: return [], None
OnRequestException == [raised |-> FALSE, records |-> <<>>, next_token |-> None]

\* _fetch_page: [raised, records, next_token].
_fetch_page(payload) ==
    IF payload.transport = "error"
    THEN OnRequestException
    ELSE LET parsed == _parse_response(payload)
         IN  IF parsed.raised
             THEN [raised |-> TRUE, records |-> <<>>, next_token |-> None]
             ELSE IF parsed.reviews_shape # "list"      \* iterating None / int
             THEN [raised |-> TRUE, records |-> <<>>, next_token |-> None]
             ELSE LET decoded == DecodeRaws(parsed.reviews, <<>>)
                  IN  IF decoded.raised
                      THEN [raised |-> TRUE, records |-> <<>>, next_token |-> None]
                      ELSE [raised |-> FALSE, records |-> decoded.records,
                            next_token |->
                               IF parsed.token_shape = "string" /\ parsed.token # ""
                               THEN parsed.token ELSE None]

\* Optional[str] for a continuation token whose text matters: none, or a
\* sequence of characters.
AbsentToken == [none |-> TRUE, text |-> <<>>]
TokenText(text) == [none |-> FALSE, text |-> text]

\* json.dumps(page_token)[1:-1] (line 352): a quote and a backslash get a
\* backslash in front, the other characters of the model stay.
RECURSIVE JsonEscape(_)
JsonEscape(text) ==
    IF text = <<>> THEN <<>>
    ELSE (IF Head(text) \in {"\"", "\\"} THEN <<"\\", Head(text)>>
          ELSE <<Head(text)>>) \o JsonEscape(Tail(text))

\* _build_body: which template is filled, and the text put in each of its
\* fields.  rating_filter None is written 0 (neither is in {1, ..., 5});
\* score is <<>> for "null".  The token stands, as escaped, between \" and \"
\* inside the JSON string that is the second element of the f.req command.
_build_body(sort_code, count, rating_filter, page_token) ==
    LET filter_value == IF rating_filter \notin {1, 2, 3, 4, 5} THEN <<>>
                        ELSE <<rating_filter>>
    IN  IF ~page_token.none /\ page_token.text # <<>>
        THEN [template |-> "PAYLOAD_PAGINATED_PAGE", sort |-> sort_code,
              count |-> count, score |-> filter_value,
              token |-> JsonEscape(page_token.text)]
        ELSE [template |-> "PAYLOAD_FIRST_PAGE", sort |-> sort_code,
              count |-> count, score |-> filter_value, token |-> <<>>]

----------------------------------------------------------------------------
\* The upstream, as far as the pipeline specification explores it: a cursor
\* over one listing per sort code.  It may return short or empty pages, repeat
\* a page (the token does not advance), omit the token, fail, or send a body
\* the decoder does not expect.

Rec(id, rating, date) == [review_id |-> id, rating |-> rating, date |-> date]

\* PlayStoreReviewFetcher.SORT_CODES and the lookup of line 284.
SortCode(mode) ==
    CASE mode = "newest" -> 2
      [] mode = "most_relevant" -> 1
      [] OTHER -> 2

\* Instants of the upstream's reviews: noon of day 0, the start of day 1 and
\* noon of day 2.
Day0Noon == timedelta(1) - 1
Day1 == timedelta(1)
Day2Noon == timedelta(2) + 1

\* The reviews the upstream holds, as listed under each sort code (2: newest
\* first).  Review 6 carries a rating outside 1..5.
Listing(sort_code) ==
    IF sort_code = 2
    THEN << Rec(6, 6, Day2Noon), Rec(2, 2, Day1), Rec(4, 4, Day1),
            Rec(5, 5, Day1), Rec(1, 1, Day0Noon), Rec(3, 3, Day0Noon) >>
    ELSE << Rec(5, 5, Day1), Rec(3, 3, Day0Noon), Rec(6, 6, Day2Noon),
            Rec(1, 1, Day0Noon), Rec(4, 4, Day1), Rec(2, 2, Day1) >>

\* The largest number of reviews on one page.
MaxPageLen == 2

\* Continuation tokens name a position of the listing.
TokenNames == <<"t1", "t2", "t3", "t4", "t5", "t6", "t7">>
TokenOf(pos) == TokenNames[pos]
PosOf(token) ==
    IF token = None THEN 1
    ELSE CHOOSE pos \in 1..Len(TokenNames) : TokenNames[pos] = token

Body(raws, last, token) ==
    [transport |-> "ok", prefix |-> TRUE, outer |-> "ok", field |-> "json",
     inner |-> "list", reviews |-> "list", raws |-> raws, last |-> last,
     token |-> token]

NoResponse == [Body(<<>>, "null", "") EXCEPT !.transport = "none"]

BadRaw(shape) == [shape |-> shape, review_id |-> 0, rating |-> 0, date |-> 0]

\* The reviews of the page of n items at position pos.
Chunk(sort_code, pos, n) ==
    [k \in 1..n |-> Raw(Listing(sort_code)[pos + k - 1])]

\* What the upstream may answer to a page request (sort_code, page_token).
Responses(sort_code, page_token) ==
    LET pos  == PosOf(page_token)
        left == Len(Listing(sort_code)) - pos + 1
        lens == 0..Min(MaxPageLen, left)
    IN  \* a page and the token of the next position, or the same token again
        UNION { {Body(Chunk(sort_code, pos, n), "list", TokenOf(q)) :
                    q \in {pos, pos + n}} : n \in lens }
        \* a page without a token
        \cup {Body(Chunk(sort_code, pos, n), "null", "") : n \in lens}
        \* transport failure, missing prefix, outer text that is not JSON
        \cup {[Body(<<>>, "null", "") EXCEPT !.transport = "error"]}
        \cup {[Body(<<>>, "null", "") EXCEPT !.prefix = FALSE]}
        \cup {[Body(<<>>, "null", "") EXCEPT !.outer = "invalid_json"]}
        \* a page with one malformed record: dropped, or raising
        \cup {Body(<<BadRaw(shape)>> \o Chunk(sort_code, pos, n), "list",
                   TokenOf(pos + n)) :
                n \in lens, shape \in {"short", "bad_timestamp"}}

----------------------------------------------------------------------------
\* The per-axis fetch loop, PlayStoreReviewFetcher.fetch.

RECURSIVE PageLoop(_, _, _, _, _)
PageLoop(page, col, seen, counts, wend) ==
    IF page = <<>>
    THEN [collected |-> col, seen_ids |-> seen, rating_counts |-> counts]
    ELSE LET record == Head(page)
         IN  IF record.review_id \in seen
             THEN PageLoop(Tail(page), col, seen, counts, wend)
             ELSE IF record.date > wend
             THEN PageLoop(Tail(page), col, seen, counts, wend)
             ELSE PageLoop(Tail(page), Append(col, record),
                           seen \cup {record.review_id},
                           IF 1 <= record.rating /\ record.rating <= 5
                           THEN [counts EXCEPT ![record.rating] = @ + 1]
                           ELSE counts,
                           wend)

\* Mutant of StopReason: a page without a continuation token does not end
\* the loop.
StopReasonIgnoringToken(page, met, token, n, cap) ==
    IF page = <<>> THEN "empty"
    ELSE IF met THEN "targets"
    ELSE IF n >= cap THEN "max_reviews"
    ELSE "none"

\* Why the while statement is left after a page ("none": it is not left).
StopReason(page, met, token, n, cap) ==
    IF page = <<>> THEN "empty"
    ELSE IF met THEN "targets"
    ELSE IF token = None THEN "no_token"
    ELSE IF n >= cap THEN "max_reviews"
    ELSE "none"

\* Python dict keyed by review_id, in insertion order.
HasKey(d, id) == \E i \in 1..Len(d) : d[i].review_id = id

\* Mutant of DictSet: the record is appended even when its id is present.
DictSetAlwaysAppend(d, record) == Append(d, record)

DictSet(d, record) ==
    IF HasKey(d, record.review_id)
    THEN [i \in 1..Len(d) |->
            IF d[i].review_id = record.review_id THEN record ELSE d[i]]
    ELSE Append(d, record)

\* fetch_reviews, lines 139-145: merge stats.records into combined_records.
RECURSIVE MergeStats(_, _, _)
MergeStats(records, d, cap) ==
    IF records = <<>> THEN d
    ELSE LET record == Head(records)
         IN  IF ~HasKey(d, record.review_id)
             THEN LET d2 == Append(d, record)
                  IN  IF Len(d2) >= cap THEN d2
                      ELSE MergeStats(Tail(records), d2, cap)
             ELSE MergeStats(Tail(records), d, cap)

\* _fetch_multi_window, lines 462-463.
RECURSIVE MergeSegment(_, _)
MergeSegment(seg, d) ==
    IF seg = <<>> THEN d
    ELSE MergeSegment(Tail(seg), DictSet(d, Head(seg)))

----------------------------------------------------------------------------
\* The pipeline: run_pipeline -> _fetch_multi_window -> fetch_reviews -> fetch,
\* then save_reviews.

\* PlayStoreReviewFetcher.MAX_PAGE_SIZE
MAX_PAGE_SIZE == 199

\* Mutant of batch_size: the page size limit is forgotten.
BatchSizeUncapped(cap, n) == cap - n

\* fetch, line 293: the page size asked for when n records are collected.
batch_size(cap, n) == Min(MAX_PAGE_SIZE, cap - n)

\* No _fetch_page call has been made by the current fetch().
NoRequest == [sort_code |-> 0, count |-> 0, rating_filter |-> 0,
              page_token |-> None]

\* datetime.date(): the calendar day of an instant.
DateOf(instant) == instant \div TicksPerDay

\* datetime.weekday(): Monday is 0; day 0 of the model is a Saturday.
Weekday(instant) == (DateOf(instant) + 5) % 7

\* Mutant of week_bucket: weeks are aligned to Sunday (isoweekday() % 7).
WeekBucketFromSunday(record) ==
    LET midnight   == timedelta(DateOf(record.date))
        week_start == midnight - timedelta((Weekday(midnight) + 1) % 7)
    IN  <<week_start, week_start + timedelta(6)>>

\* ReviewRecord.week_bucket: midnight of the record's day, moved back to the
\* Monday of its week, and six days later.
week_bucket(record) ==
    LET midnight   == timedelta(DateOf(record.date))
        week_start == midnight - timedelta(Weekday(midnight))
        week_end   == week_start + timedelta(6)
    IN  <<week_start, week_end>>

\* datetime.isoformat() of a UTC datetime: the text gives its day, its time
\* of day and its offset.
IsoFormat(instant) ==
    [day |-> DateOf(instant), time |-> instant % TicksPerDay, offset |-> 0]

\* _serialise_record: the dict written for a record.
_serialise_record(record) ==
    [review_id |-> record.review_id, rating |-> record.rating,
     date |-> IsoFormat(record.date)]

\* A directory is a set of files [name, content]; content is the list of
\* rows json.dump wrote.
\* Mutant of WriteFile: the file is opened for appending.
WriteFileAppending(dir, name, content) ==
    LET old == IF \E f \in dir : f.name = name
               THEN (CHOOSE f \in dir : f.name = name).content
               ELSE <<>>
    IN  {f \in dir : f.name # name}
            \cup {[name |-> name, content |-> old \o content]}

\* path.open("w") and json.dump(content, fh): the file is created or
\* truncated, then written.
WriteFile(dir, name, content) ==
    {f \in dir : f.name # name} \cup {[name |-> name, content |-> content]}

\* _save_weekly_buckets, lines 213-216: the keys of weekly_groups in
\* insertion order (week_start.date().isoformat() of each record).
RECURSIVE WeekKeys(_, _)
WeekKeys(reviews_list, keys) ==
    IF reviews_list = <<>> THEN keys
    ELSE LET key == DateOf(week_bucket(Head(reviews_list))[1])
         IN  WeekKeys(Tail(reviews_list),
                      IF \E k \in 1..Len(keys) : keys[k] = key
                      THEN keys ELSE Append(keys, key))

\* weekly_groups[week_key]
WeekGroup(reviews_list, week_key) ==
    SelectSeq(reviews_list, LAMBDA r : DateOf(week_bucket(r)[1]) = week_key)

\* Mutant of WeekRows: the week dates are taken once, from the first record
\* of the whole list.
WeekRowsDatesOfFirstRecord(reviews_list, week_key) ==
    LET records == WeekGroup(reviews_list, week_key)
        bucket  == week_bucket(reviews_list[1])
    IN  [i \in 1..Len(records) |->
            [record          |-> _serialise_record(records[i]),
             week_start_date |-> DateOf(bucket[1]),
             week_end_date   |-> DateOf(bucket[2])]]

\* _save_weekly_buckets, lines 224-230: the rows of one week file.
WeekRows(reviews_list, week_key) ==
    LET records == WeekGroup(reviews_list, week_key)
        bucket  == week_bucket(records[1])
    IN  [i \in 1..Len(records) |->
            [record          |-> _serialise_record(records[i]),
             week_start_date |-> DateOf(bucket[1]),
             week_end_date   |-> DateOf(bucket[2])]]

\* _save_weekly_buckets, lines 223-234: one file per week key.
RECURSIVE WriteWeeks(_, _, _)
WriteWeeks(dir, reviews_list, keys) ==
    IF keys = <<>> THEN dir
    ELSE WriteWeeks(WriteFile(dir, Head(keys), WeekRows(reviews_list, Head(keys))),
                    reviews_list, Tail(keys))

\* _save_weekly_buckets: the weekly directory after the call.
_save_weekly_buckets(dir, reviews_list) ==
    WriteWeeks(dir, reviews_list, WeekKeys(reviews_list, <<>>))

\* save_reviews after date_window returned (lines 199-210): the name of the
\* window file from the days of the window, its payload, the two directories
\* after the call.
save_reviews(dir, weekly_dir, reviews_list, window) ==
    LET filename == <<DateOf(window.start.wall), DateOf(window.end.wall)>>
        payload  == [i \in 1..Len(reviews_list) |->
                        _serialise_record(reviews_list[i])]
    IN  [saved        |-> WriteFile(dir, filename, payload),
         weekly_files |-> _save_weekly_buckets(weekly_dir, reviews_list)]

\* compute_weekly_buckets: the buckets dict in insertion order, one entry
\* per week key with the ids of its records in list order.
RECURSIVE BucketLoop(_, _)
BucketLoop(reviews_list, buckets) ==
    IF reviews_list = <<>> THEN buckets
    ELSE LET record == Head(reviews_list)
             bucket == week_bucket(record)
             key    == DateOf(bucket[1])
             known  == \E k \in 1..Len(buckets) : buckets[k].week_start = key
             b2     == IF known THEN buckets
                       ELSE Append(buckets, [week_start |-> key,
                                             week_end   |-> DateOf(bucket[2]),
                                             review_ids |-> <<>>])
         IN  BucketLoop(Tail(reviews_list),
                 [k \in 1..Len(b2) |->
                     IF b2[k].week_start = key
                     THEN [b2[k] EXCEPT !.review_ids = Append(@, record.review_id)]
                     ELSE b2[k]])

compute_weekly_buckets(reviews_list) == BucketLoop(reviews_list, <<>>)

\* Sort mode names as configured: texts, i.e. sequences of characters, or
\* None.
NoMode == [none |-> TRUE, text |-> <<>>]
ModeText(text) == [none |-> FALSE, text |-> text]

\* "newest"
Newest == <<"n", "e", "w", "e", "s", "t">>

\* str.strip(): leading and trailing whitespace removed.
RECURSIVE StripLeft(_)
StripLeft(text) ==
    IF text # <<>> /\ Head(text) = " " THEN StripLeft(Tail(text)) ELSE text

RECURSIVE StripRight(_)
StripRight(text) ==
    IF text # <<>> /\ text[Len(text)] = " "
    THEN StripRight(SubSeq(text, 1, Len(text) - 1))
    ELSE text

\* str.lower(), on the letters the mode texts use.
Lower(text) ==
    [k \in 1..Len(text) |->
        CASE text[k] = "N" -> "n"
          [] text[k] = "M" -> "m"
          [] text[k] = "R" -> "r"
          [] OTHER -> text[k]]

\* Mutant of Normalize: lower() is left out.
StripOnly(candidate) ==
    StripRight(StripLeft(IF candidate.none THEN <<>> ELSE candidate.text))

\* (candidate or "").strip().lower()
Normalize(candidate) ==
    Lower(StripRight(StripLeft(IF candidate.none THEN <<>> ELSE candidate.text)))

\* The for statement of _build_sort_sequence; seen holds the elements of
\* sequence.
RECURSIVE SortSequenceLoop(_, _)
SortSequenceLoop(candidates, sequence) ==
    IF candidates = <<>> THEN sequence
    ELSE LET normalized == Normalize(Head(candidates))
             seen == {sequence[k] : k \in 1..Len(sequence)}
         IN  IF normalized = <<>> \/ normalized \in seen
             THEN SortSequenceLoop(Tail(candidates), sequence)
             ELSE SortSequenceLoop(Tail(candidates), Append(sequence, normalized))

_build_sort_sequence(sort_mode, fallback_sort_modes) ==
    LET sequence == SortSequenceLoop(<<sort_mode>> \o fallback_sort_modes, <<>>)
    IN  IF sequence = <<>> THEN <<Newest>> ELSE sequence

\* Local state of fetch() on entry (lines 287-290), and where control goes:
\* the while statement is entered only if len(collected) < max_reviews.
EnterFetch ==
    /\ collected' = <<>>
    /\ seen_ids' = {}
    /\ rating_counts' = _empty_rating_counts
    /\ next_token' = None
    /\ resp' = NoResponse
    /\ request' = NoRequest
    /\ stop' = "none"
    /\ stats' = <<>>
    /\ pc' = IF 0 < max_reviews THEN "page" ELSE "fetched"

\* fetch_reviews entry for slice k (lines 124-134) and the first fetch().
EnterFetchReviews(k, slices) ==
    /\ slice_i' = k
    /\ window_start' = slices[k][1]
    /\ window_end' = slices[k][2]
    /\ combined_records' = <<>>
    /\ window_counts' = _empty_rating_counts
    /\ warned' = FALSE
    /\ mode_i' = 1
    /\ EnterFetch

\* run_pipeline, lines 112-117: the window slices are built from the command
\* line; a configuration error ends the run, otherwise _fetch_multi_window
\* starts (line 457) and calls fetch_reviews for the first slice, or returns
\* at once when there is no slice.
StartRun ==
    /\ pc = "start"
    /\ LET built == _build_window_slices(cli)
       IN  IF built.error # "none"
           THEN /\ pc' = built.error
                /\ UNCHANGED <<window_slices, pipelineLocals>>
           ELSE /\ window_slices' = built.slices
                /\ IF built.slices = <<>>
                   THEN /\ pc' = "done"
                        /\ UNCHANGED pipelineLocals
                   ELSE /\ combined' = <<>>
                        /\ segment' = <<>>
                        /\ EnterFetchReviews(1, built.slices)
    /\ UNCHANGED <<shortfall, args, ret, cli, saved, weekly_files, requested,
                   per_rating_target, max_reviews, sort_sequence>>

\* An exception leaves fetch, fetch_reviews, _fetch_multi_window and
\* run_pipeline (none has a handler): every local is gone, nothing is returned.
Abort(r) ==
    /\ pc' = "raised"
    /\ resp' = r
    /\ combined' = <<>>
    /\ segment' = <<>>
    /\ combined_records' = <<>>
    /\ window_counts' = _empty_rating_counts
    /\ collected' = <<>>
    /\ seen_ids' = {}
    /\ rating_counts' = _empty_rating_counts
    /\ next_token' = None
    /\ stop' = "none"
    /\ stats' = <<>>
    /\ UNCHANGED <<slice_i, window_start, window_end, mode_i, warned>>

\* One iteration of the while statement of fetch (lines 292-318): one page
\* request, its response r, and the processing of the page.
FetchPage ==
    /\ pc = "page"
    /\ request' = [sort_code     |-> SortCode(sort_sequence[mode_i]),
                   count         |-> batch_size(max_reviews, Len(collected)),
                   rating_filter |-> 0,
                   page_token    |-> next_token]
    /\ requested' = TRUE
    /\ \E r \in Responses(SortCode(sort_sequence[mode_i]), next_token) :
         LET res == _fetch_page(r)
         IN  IF res.raised THEN Abort(r)
             ELSE LET st  == PageLoop(res.records, collected, seen_ids,
                                      rating_counts, window_end)
                      why == StopReason(res.records,
                                 _targets_met(st.rating_counts, per_rating_target),
                                 res.next_token, Len(st.collected), max_reviews)
                  IN  /\ resp' = r
                      /\ next_token' = res.next_token
                      /\ collected' = st.collected
                      /\ seen_ids' = st.seen_ids
                      /\ rating_counts' = st.rating_counts
                      /\ stop' = why
                      /\ pc' = IF why = "none" THEN "page" ELSE "fetched"
                      /\ UNCHANGED <<slice_i, combined, segment, window_start,
                                     window_end, mode_i, combined_records,
                                     window_counts, stats, warned>>
    /\ UNCHANGED <<shortfall, args, ret, cli, saved, weekly_files, per_rating_target,
                   max_reviews, sort_sequence, window_slices>>

\* fetch after the loop (lines 320-323): the axis result.
FetchReturn ==
    /\ pc = "fetched"
    /\ stats' = _limit_per_rating(
                    _filter_by_window(collected, window_start, window_end),
                    per_rating_target)
    /\ shortfall' = ShortfallWarnings(
                    _filter_by_window(collected, window_start, window_end),
                    per_rating_target)
    /\ pc' = "merging"
    /\ UNCHANGED <<args, ret, cli, saved, weekly_files, per_rating_target,
                   max_reviews, sort_sequence,
                   window_slices, slice_i, combined, segment, window_start,
                   window_end, mode_i, combined_records, window_counts,
                   collected, seen_ids, rating_counts, next_token, resp, stop,
                   request, warned, requested>>

\* fetch_reviews, the body of the for statement after fetch returned
\* (lines 138-161): break when the targets are met, else the next mode's
\* fetch, else (no mode left) the else clause with its warning.
MergeMode ==
    /\ pc = "merging"
    /\ LET merged == MergeStats(stats, combined_records, max_reviews)
           counts == _count_by_rating(
                         _filter_by_window(merged, window_start, window_end))
       IN  /\ combined_records' = merged
           /\ window_counts' = counts
           /\ IF _targets_met(counts, per_rating_target)
              THEN /\ pc' = "collected"
                   /\ UNCHANGED <<mode_i, collected, seen_ids, rating_counts,
                                  next_token, resp, stop, stats, request,
                                  warned>>
              ELSE IF mode_i < Len(sort_sequence)
              THEN /\ mode_i' = mode_i + 1
                   /\ EnterFetch
                   /\ UNCHANGED warned
              ELSE /\ pc' = "collected"
                   /\ warned' = TRUE
                   /\ UNCHANGED <<mode_i, collected, seen_ids, rating_counts,
                                  next_token, resp, stop, stats, request>>
    /\ UNCHANGED <<shortfall, args, ret, cli, saved, weekly_files, per_rating_target,
                   max_reviews, sort_sequence,
                   window_slices, slice_i, combined, segment, window_start,
                   window_end, requested>>

\* fetch_reviews, lines 163-168: filter, limit, sort, return.
ReturnReviews ==
    /\ pc = "collected"
    /\ segment' = SortedByDateDesc(
                     _limit_per_rating(
                        _filter_by_window(combined_records, window_start, window_end),
                        per_rating_target))
    /\ shortfall' = ShortfallWarnings(
                        _filter_by_window(combined_records, window_start, window_end),
                        per_rating_target)
    /\ pc' = "returned"
    /\ UNCHANGED <<args, ret, cli, saved, weekly_files, per_rating_target,
                   max_reviews, sort_sequence,
                   window_slices, slice_i, combined, window_start, window_end,
                   mode_i, combined_records, window_counts, collected, seen_ids,
                   rating_counts, next_token, resp, stop, stats, request,
                   warned, requested>>

\* _fetch_multi_window, lines 461-465: merge the segment, then the next slice
\* or the return of list(combined.values()).
MergeSlice ==
    /\ pc = "returned"
    /\ combined' = MergeSegment(segment, combined)
    /\ IF slice_i < Len(window_slices)
       THEN /\ EnterFetchReviews(slice_i + 1, window_slices)
            /\ UNCHANGED segment
       ELSE /\ pc' = "done"
            /\ UNCHANGED <<segment, slice_i, window_start, window_end, mode_i,
                           combined_records, window_counts, collected, seen_ids,
                           rating_counts, next_token, resp, stop,
                           stats, request, warned>>
    /\ UNCHANGED <<shortfall, args, ret, cli, saved, weekly_files, per_rating_target,
                   max_reviews, sort_sequence, window_slices, requested>>

\* run_pipeline, lines 118-122, and save_reviews: nothing is saved when no
\* review was found; otherwise the window of the file name is computed by
\* date_window from the first slice's start and the last slice's end
\* (ValueError when it raises), the window file and the week files are written.
SaveReviews ==
    /\ pc = "done"
    /\ IF combined = <<>>
       THEN /\ pc' = "finished"
            /\ UNCHANGED <<saved, weekly_files>>
       ELSE LET config == _build_scraper_config(cli)
                window == date_window(config.lookback_days,
                              config.min_offset_days, NoDate,
                              Utc(window_slices[1][1]),
                              Utc(window_slices[Len(window_slices)][2]),
                              cli.now)
            IN  IF window.raised
                THEN /\ pc' = "value_error"
                     /\ UNCHANGED <<saved, weekly_files>>
                ELSE LET written == save_reviews(saved, weekly_files,
                                                 combined, window)
                     IN  /\ saved' = written.saved
                         /\ weekly_files' = written.weekly_files
                         /\ pc' = "saved"
    /\ UNCHANGED <<shortfall, args, ret, cli, per_rating_target, max_reviews,
                   sort_sequence, window_slices, requested, pipelineLocals>>

\* The command line and environment of a run: no option given.
BaseLine ==
    [window_slices |-> <<>>, reference_date |-> NoValue,
     start_date |-> NoValue, end_date |-> NoValue, slice_days |-> 0,
     lookback_days |-> 0, min_offset_days |-> 0,
     REVIEW_LOOKBACK_DAYS |-> LookbackDaysDefault,
     REVIEW_MIN_OFFSET_DAYS |-> MinOffsetDaysDefault, now |-> 0]

\* ISO text without a zone for the instant t.
At(t) == DateText(Datetime(t, FALSE, 0))

\* --start-date a --end-date b --slice-days d
WindowLine(a, b, d) ==
    [BaseLine EXCEPT !.start_date = At(a), !.end_date = At(b), !.slice_days = d]

\* --window-slices chunks
SlicesLine(chunks) == [BaseLine EXCEPT !.window_slices = chunks]

\* Command lines that pass the configuration: days 0..3 or 0..1 split with
\* slice_days = 2, two overlapping slices, two slices listed newest first
\* (with an empty entry between them), and a list of empty entries only.
CommandLines ==
    { WindowLine(0, timedelta(3), 2),
      WindowLine(0, timedelta(1), 2),
      SlicesLine(<< SliceChunk(At(0), At(Day1)),
                    SliceChunk(At(Day0Noon), At(Day2Noon)) >>),
      SlicesLine(<< SliceChunk(At(timedelta(2)), At(timedelta(3))), BlankChunk,
                    SliceChunk(At(0), At(Day1)) >>),
      SlicesLine(<< BlankChunk >>) }

\* Command lines with a configuration error: an entry without a colon, an
\* unparseable date, an entry with an empty date, an entry or a window with
\* start > end, an unparseable --start-date.
BadCommandLines ==
    { SlicesLine(<< NoColonChunk >>),
      SlicesLine(<< SliceChunk(BadDateText, At(Day1)) >>),
      SlicesLine(<< SliceChunk(NoValue, At(Day1)) >>),
      SlicesLine(<< SliceChunk(At(Day1), At(0)) >>),
      WindowLine(Day1, 0, 2),
      [BaseLine EXCEPT !.start_date = BadDateText] }

\* Configurations the pipeline specification starts from: per_rating_target
\* (0 disables the targets), max_reviews (a small cap and the default),
\* sort_sequence, and the command line.
PipelineConfigs ==
    { <<t, m, ss, cl>> :
        t \in {0, 1}, m \in {3, 2000},
        ss \in { <<"newest">>, <<"newest", "most_relevant">> },
        cl \in CommandLines \cup BadCommandLines }

\* Nothing has been fetched.
FetchIdle ==
    /\ slice_i = 0
    /\ combined = <<>>
    /\ segment = <<>>
    /\ window_start = 0
    /\ window_end = 0
    /\ mode_i = 0
    /\ combined_records = <<>>
    /\ window_counts = _empty_rating_counts
    /\ collected = <<>>
    /\ seen_ids = {}
    /\ rating_counts = _empty_rating_counts
    /\ next_token = None
    /\ resp = NoResponse
    /\ stop = "none"
    /\ stats = <<>>
    /\ request = NoRequest
    /\ warned = FALSE
    /\ requested = FALSE
    /\ shortfall = {}

\* Nothing has been fetched and both output directories are empty.
PipelineIdle ==
    /\ FetchIdle
    /\ saved = {}
    /\ weekly_files = {}

Init ==
    /\ pc = "start"
    /\ args = <<>>
    /\ ret = <<>>
    /\ \E c \in PipelineConfigs :
         /\ per_rating_target = c[1]
         /\ max_reviews = c[2]
         /\ sort_sequence = c[3]
         /\ cli = c[4]
    /\ window_slices = <<>>
    /\ PipelineIdle

Next ==
    \/ StartRun
    \/ FetchPage
    \/ FetchReturn
    \/ MergeMode
    \/ ReturnReviews
    \/ MergeSlice
    \/ SaveReviews

Spec == Init /\ [][Next]_vars

FairSpec == Init /\ [][Next]_vars /\ WF_vars(Next)

----------------------------------------------------------------------------
\* Specifications of the pure functions: Init draws the arguments, one action
\* applies the function.  The pipeline is idle in them.

NoConfig ==
    /\ per_rating_target = 0
    /\ max_reviews = 0
    /\ sort_sequence = <<>>
    /\ window_slices = <<>>
    /\ cli = BaseLine

\* _split_into_slices(start, end, slice_days) for start <= end, slice_days >= 1.
SliceArgs ==
    { [start |-> a, end |-> b, slice_days |-> d] :
        a \in 0..MaxTick, b \in 0..MaxTick, d \in 1..MaxSliceDays }

\* The window 2024-01-01..2024-01-14 (day 0 to day 13) with slice_days = 7.
TwoWeekExample == [start |-> 0, end |-> timedelta(13), slice_days |-> 7]

InitSlices ==
    /\ pc = "split_call"
    /\ args \in {x \in SliceArgs : x.start <= x.end} \cup {TwoWeekExample}
    /\ ret = <<>>
    /\ NoConfig
    /\ PipelineIdle

SplitIntoSlices ==
    /\ pc = "split_call"
    /\ ret' = _split_into_slices(args.start, args.end, args.slice_days)
    /\ pc' = "split_done"
    /\ UNCHANGED <<args, pipelineVars, shortfall>>

SpecSlices == InitSlices /\ [][SplitIntoSlices]_vars

\* The selector: _limit_per_rating applied to the in-window records
\* (fetch_reviews, lines 163-166).  The records are the values of a dict, so
\* their ids differ; ratings include out-of-range values.
MaxSelLen == 3
MaxTarget == 2
SelRatings == {0, 3, 6}
SelDates == 0..3
SelWindow == <<1, 2>>

SelLists ==
    UNION { { [i \in 1..n |-> Rec(i, f[i][1], f[i][2])] :
                f \in [1..n -> SelRatings \X SelDates] } : n \in 0..MaxSelLen }

InitSelect ==
    /\ pc = "select_call"
    /\ args \in { [records |-> l, window_start |-> SelWindow[1],
                   window_end |-> SelWindow[2], target |-> t] :
                    l \in SelLists, t \in (-1)..MaxTarget }
    /\ ret = <<>>
    /\ NoConfig
    /\ PipelineIdle

Select ==
    /\ pc = "select_call"
    /\ ret' = _limit_per_rating(
                 _filter_by_window(args.records, args.window_start, args.window_end),
                 args.target)
    /\ shortfall' = ShortfallWarnings(
                 _filter_by_window(args.records, args.window_start, args.window_end),
                 args.target)
    /\ pc' = "select_done"
    /\ UNCHANGED <<args, pipelineVars>>

SpecSelect == InitSelect /\ [][Select]_vars

\* _fetch_page on one response body.  Each layer takes every shape the
\* decoder distinguishes; the layers below the first unexpected one are never
\* read, so they stay at the expected shape.
MaxRawLen == 2
OkRaw == Raw(Rec(1, 5, 1))
RawShapes == {"short", "null", "bad_rating", "object", "name_not_string",
              "no_id", "no_timestamp", "bad_timestamp"}
RawItems == {OkRaw} \cup {BadRaw(shape) : shape \in RawShapes}
RawLists == UNION { [1..n -> RawItems] : n \in 0..MaxRawLen }

Expected == Body(<<OkRaw>>, "list", "t1")

DecodeBodies ==
    {[Expected EXCEPT !.transport = "error"], [Expected EXCEPT !.prefix = FALSE]}
    \cup {[Expected EXCEPT !.outer = o] :
            o \in {"invalid_json", "empty", "object", "scalar", "elem_scalar",
                   "short", "elem_object"}}
    \cup {[Expected EXCEPT !.field = f] : f \in {"not_string", "invalid_json"}}
    \cup {[Expected EXCEPT !.inner = i] :
            i \in {"empty_list", "null", "empty_object", "object", "scalar"}}
    \cup {[Expected EXCEPT !.reviews = r, !.raws = l, !.last = e, !.token = t] :
            r \in {"list", "null", "number"}, l \in RawLists,
            e \in {"list", "null", "scalar", "empty_list", "object", "non_string"},
            t \in {"", "t1"}}

InitDecode ==
    /\ pc = "decode_call"
    /\ args \in DecodeBodies
    /\ ret = <<>>
    /\ NoConfig
    /\ PipelineIdle

FetchOnePage ==
    /\ pc = "decode_call"
    /\ ret' = _fetch_page(args)
    /\ pc' = "decode_done"
    /\ UNCHANGED <<args, pipelineVars, shortfall>>

SpecDecode == InitDecode /\ [][FetchOnePage]_vars

\* date_window on the configuration _build_scraper_config builds.  The
\* command line gives --lookback-days and --min-offset-days or not (0), the
\* environment sets REVIEW_LOOKBACK_DAYS and REVIEW_MIN_OFFSET_DAYS or leaves
\* the default; each date is absent, naive, or aware with an offset of one
\* instant east or west.
MaxWall == 2

WindowDates ==
    {NoDate} \cup { Datetime(w, z[1], z[2]) :
                       w \in 0..MaxWall,
                       z \in {<<FALSE, 0>>, <<TRUE, 1>>, <<TRUE, -1>>} }

WindowLines ==
    { [BaseLine EXCEPT !.lookback_days = l, !.REVIEW_LOOKBACK_DAYS = el,
                       !.min_offset_days = o, !.REVIEW_MIN_OFFSET_DAYS = eo] :
        l \in {-1, 0, 1}, el \in {0, LookbackDaysDefault},
        o \in {-1, 0, 1}, eo \in {0, MinOffsetDaysDefault} }

InitWindow ==
    /\ pc = "window_call"
    /\ args \in { [cl |-> cl, reference_date |-> r, start_date |-> a,
                   end_date |-> b, now |-> MaxWall] :
                    cl \in WindowLines, r \in WindowDates,
                    a \in WindowDates, b \in WindowDates }
    /\ ret = <<>>
    /\ NoConfig
    /\ PipelineIdle

DateWindow ==
    /\ pc = "window_call"
    /\ ret' = LET config == _build_scraper_config(args.cl)
              IN  date_window(config.lookback_days, config.min_offset_days,
                              args.reference_date, args.start_date,
                              args.end_date, args.now)
    /\ pc' = "window_done"
    /\ UNCHANGED <<args, pipelineVars, shortfall>>

SpecWindow == InitWindow /\ [][DateWindow]_vars

\* _build_body on one page request.  A token is a text over a letter and
\* the characters the encodings of the request treat specially.
MaxTokenLen == 2
TokenChars == {"a", "+", "\"", "\\"}
TokenTexts == UNION { [1..n -> TokenChars] : n \in 0..MaxTokenLen }

InitBody ==
    /\ pc = "body_call"
    /\ args \in { [sort_code |-> sc, count |-> c, rating_filter |-> f,
                   page_token |-> t] :
                    sc \in {1, 2}, c \in {1, MAX_PAGE_SIZE}, f \in {0, 3, 6},
                    t \in {AbsentToken} \cup {TokenText(x) : x \in TokenTexts} }
    /\ ret = <<>>
    /\ NoConfig
    /\ PipelineIdle

BuildBody ==
    /\ pc = "body_call"
    /\ ret' = _build_body(args.sort_code, args.count, args.rating_filter,
                          args.page_token)
    /\ pc' = "body_done"
    /\ UNCHANGED <<args, pipelineVars, shortfall>>

SpecBody == InitBody /\ [][BuildBody]_vars

\* save_reviews called twice with the same list and window, in directories
\* that are empty or hold the files of an earlier call for the same window.
\* Record dates: a Saturday, the Sunday after it at noon, the Monday after
\* that, the Sunday and the Monday a week later.
MaxSaveLen == 3
SaveDates ==
    {0, timedelta(1) + 1, timedelta(2), timedelta(8), timedelta(9)}

SaveLists ==
    UNION { { [i \in 1..n |-> Rec(i, 3, f[i])] : f \in [1..n -> SaveDates] } :
                n \in 0..MaxSaveLen }

SaveWindows ==
    { [start_date |-> Utc(0), end_date |-> Utc(timedelta(9))],
      [start_date |-> Utc(timedelta(2)), end_date |-> Utc(timedelta(8) + 1)],
      [start_date |-> Utc(timedelta(9)), end_date |-> Utc(0)] }

\* config.date_window(reference_date, start_date, end_date) of save_reviews.
SaveWindow(w) ==
    date_window(LookbackDaysDefault, MinOffsetDaysDefault, NoDate,
                w.start_date, w.end_date, 0)

\* The list an earlier call saved: one record of the week of day 2.
EarlierList == << Rec(9, 1, timedelta(3)) >>

InitSave ==
    /\ pc = "save_call"
    /\ args \in { [reviews_list |-> l, start_date |-> w.start_date,
                    end_date |-> w.end_date] :
                      l \in SaveLists, w \in SaveWindows }
    /\ ret = <<>>
    /\ NoConfig
    /\ FetchIdle
    /\ \E dirs \in { [saved |-> {}, weekly_files |-> {}] } \cup
                    (IF SaveWindow(args).raised THEN {}
                     ELSE {save_reviews({}, {}, EarlierList, SaveWindow(args))}) :
          /\ saved = dirs.saved
          /\ weekly_files = dirs.weekly_files

\* One call of save_reviews: ValueError from date_window, or the files.
SaveCall ==
    /\ pc \in {"save_call", "save_again"}
    /\ LET window == SaveWindow(args)
       IN  IF window.raised
           THEN /\ pc' = "value_error"
                /\ UNCHANGED <<saved, weekly_files>>
           ELSE LET written == save_reviews(saved, weekly_files,
                                            args.reviews_list, window)
                IN  /\ saved' = written.saved
                    /\ weekly_files' = written.weekly_files
                    /\ pc' = IF pc = "save_call" THEN "save_again"
                                                 ELSE "save_done"
    /\ UNCHANGED <<args, ret, shortfall, per_rating_target, max_reviews,
                   sort_sequence, window_slices, requested, cli, pipelineLocals>>

SpecSave == InitSave /\ [][SaveCall]_vars

\* week_bucket of two records and compute_weekly_buckets of the two, for
\* dates of the days 0..MaxWeekDay at every time of day.
MaxWeekDay == 15
WeekDates == 0..(timedelta(MaxWeekDay + 1) - 1)

InitWeek ==
    /\ pc = "week_call"
    /\ args \in { [a |-> Rec(1, 3, d1), b |-> Rec(2, 3, d2)] :
                    d1 \in WeekDates, d2 \in WeekDates }
    /\ ret = <<>>
    /\ NoConfig
    /\ PipelineIdle

WeekBucket ==
    /\ pc = "week_call"
    /\ ret' = [a       |-> week_bucket(args.a),
               b       |-> week_bucket(args.b),
               buckets |-> compute_weekly_buckets(<<args.a, args.b>>)]
    /\ pc' = "week_done"
    /\ UNCHANGED <<args, pipelineVars, shortfall>>

SpecWeek == InitWeek /\ [][WeekBucket]_vars

\* _build_sort_sequence for a sort mode and up to MaxFallbacks fallback modes
\* drawn from: nothing, blanks, "newest", "Newest", " newest ",
\* "most_relevant", "Most_Relevant ", "most relevant".
MaxFallbacks == 2
MostRelevant ==
    <<"m", "o", "s", "t", "_", "r", "e", "l", "e", "v", "a", "n", "t">>

ModeTexts ==
    { <<>>,
      <<" ", " ">>,
      Newest,
      <<"N">> \o Tail(Newest),
      <<" ">> \o Newest \o <<" ">>,
      MostRelevant,
      <<"M">> \o SubSeq(MostRelevant, 2, 5) \o <<"R">>
              \o SubSeq(MostRelevant, 7, 13) \o <<" ">>,
      SubSeq(MostRelevant, 1, 4) \o <<" ">> \o SubSeq(MostRelevant, 6, 13) }

InitSortSequence ==
    /\ pc = "sequence_call"
    /\ args \in UNION { { [sort_mode |-> m, fallback_sort_modes |-> f] :
                            m \in {NoMode} \cup {ModeText(t) : t \in ModeTexts},
                            f \in [1..n -> {ModeText(t) : t \in ModeTexts}] } :
                        n \in 0..MaxFallbacks }
    /\ ret = <<>>
    /\ NoConfig
    /\ PipelineIdle

BuildSortSequence ==
    /\ pc = "sequence_call"
    /\ ret' = _build_sort_sequence(args.sort_mode, args.fallback_sort_modes)
    /\ pc' = "sequence_done"
    /\ UNCHANGED <<args, pipelineVars, shortfall>>

SpecSortSequence == InitSortSequence /\ [][BuildSortSequence]_vars

\* The sort code fetch resolves for each mode of a sort sequence.  The modes
\* are those --sort-mode accepts, each at most once in a sequence.
SortModeChoices ==
    {"newest", "most_relevant", "highest_rating", "lowest_rating"}

SortSequences ==
    UNION { {q \in [1..n -> SortModeChoices] :
                \A i \in 1..n : \A j \in 1..n : i # j => q[i] # q[j]} :
            n \in 1..Cardinality(SortModeChoices) }

InitSortCodes ==
    /\ pc = "codes_call"
    /\ args \in SortSequences
    /\ ret = <<>>
    /\ NoConfig
    /\ PipelineIdle

\* fetch, line 284, for every mode of the sequence (fetch_reviews, 136-137).
ResolveSortCodes ==
    /\ pc = "codes_call"
    /\ ret' = [k \in 1..Len(args) |-> SortCode(args[k])]
    /\ pc' = "codes_done"
    /\ UNCHANGED <<args, pipelineVars, shortfall>>

SpecSortCodes == InitSortCodes /\ [][ResolveSortCodes]_vars

----------------------------------------------------------------------------
\* Properties.

Ids(records) == {records[i].review_id : i \in 1..Len(records)}

NoDuplicateIds(records) ==
    \A i, j \in 1..Len(records) :
        records[i].review_id = records[j].review_id => i = j

InWindow(record, wstart, wend) == wstart <= record.date /\ record.date <= wend

\* Number of records of a list that lie in the window and fall in a bucket.
InWindowCount(records, wstart, wend, score) ==
    Cardinality({i \in 1..Len(records) :
                    /\ InWindow(records[i], wstart, wend)
                    /\ Bucket(records[i].rating) = score})

BucketCount(records, score) ==
    Cardinality({i \in 1..Len(records) : Bucket(records[i].rating) = score})

\* C1: for start <= end and slice_days >= 1 the slices of _split_into_slices
\* cover the window exactly: the first slice starts at start, the last ends at
\* end, and every instant of [start, end] lies in exactly one slice.
C1_SlicesCoverWindow ==
    pc = "split_done" =>
        /\ Len(ret) >= 1
        /\ ret[1][1] = args.start
        /\ ret[Len(ret)][2] = args.end
        /\ \A t \in args.start..args.end :
              Cardinality({k \in 1..Len(ret) : ret[k][1] <= t /\ t <= ret[k][2]}) = 1

\* C2: with per_rating_target > 0 the selector admits at most
\* per_rating_target records of each rating bucket; with per_rating_target <= 0
\* it returns every in-window record exactly once (and nothing else).
C2_SelectorRespectsTargets ==
    pc = "select_done" =>
        /\ args.target > 0 =>
              \A score \in Ratings : BucketCount(ret, score) <= args.target
        /\ args.target <= 0 =>
              \A i \in 1..Len(args.records) :
                  Cardinality({k \in 1..Len(ret) : ret[k] = args.records[i]})
                    = IF InWindow(args.records[i], args.window_start, args.window_end)
                      THEN 1 ELSE 0

\* C2 witness: targets are enabled and some bucket holds more in-window
\* records than the target, so the selector had to reject one.
C2_Witness ==
    /\ pc = "select_done"
    /\ args.target > 0
    /\ \E score \in Ratings :
          /\ InWindowCount(args.records, args.window_start, args.window_end, score)
               > args.target
          /\ BucketCount(ret, score) = args.target

\* The bodies whose envelope or review list is not what the decoder expects.
EnvelopeMalformed(body) ==
    /\ body.transport = "ok"
    /\ \/ ~body.prefix
       \/ body.outer # "ok"
       \/ body.field # "json"
       \/ body.inner # "list"
       \/ body.reviews # "list"

\* C6: decoding one page response never raises: for every response body
\* _fetch_page returns, and for a body with a malformed envelope or review
\* list it returns the empty page (no records, no token).
C6_DecodingNeverRaises ==
    pc = "decode_done" =>
        /\ ~ret.raised
        /\ EnvelopeMalformed(args) => (ret.records = <<>> /\ ret.next_token = None)

\* The decoded records of the last page (fetch: page_records).
page_records == _fetch_page(resp).records

\* C3: records outside [window_start, window_end] never count toward a
\* target: whenever the fetch loop or fetch_reviews stops because the targets
\* are met, with per_rating_target > 0, the records collected so far hold at
\* least per_rating_target in-window records of every rating.
C3_TargetsCountOnlyInWindow ==
    per_rating_target > 0 =>
        /\ (pc = "fetched" /\ stop = "targets") =>
              \A score \in Ratings :
                  InWindowCount(collected, window_start, window_end, score)
                    >= per_rating_target
        /\ (pc = "collected" /\ _targets_met(window_counts, per_rating_target)) =>
              \A score \in Ratings :
                  InWindowCount(combined_records, window_start, window_end, score)
                    >= per_rating_target

\* The four stop conditions of the fetch loop, read after a page.
PageEmpty == page_records = <<>>
NoToken == next_token = None
CapReached == Len(collected) >= max_reviews
RunningCountsMet == \A score \in Ratings : rating_counts[score] >= per_rating_target

AfterPage == pc \in {"page", "fetched"} /\ resp.transport # "none"

\* A further page request is issued iff none of the stop conditions holds.
FurtherRequestIff ==
    AfterPage =>
        (pc = "page" <=> ~(PageEmpty \/ NoToken \/ CapReached \/ RunningCountsMet))

\* C4 as stated: a further page request is issued iff none of (a)-(d) holds,
\* and a page with records but no continuation token ends the loop without
\* error with all of its records in the accumulated set.
C4_AsStated ==
    /\ FurtherRequestIff
    /\ (AfterPage /\ ~PageEmpty /\ NoToken) =>
          /\ pc = "fetched"
          /\ \A i \in 1..Len(page_records) :
                page_records[i].review_id \in Ids(collected)

\* C4 (amended): a further page request is issued iff none of (a)-(d) holds,
\* and a page with records but no continuation token ends the loop without
\* error with each of its records not newer than window_end in the
\* accumulated set.
C4_LoopContinuesIff ==
    /\ FurtherRequestIff
    /\ (AfterPage /\ ~PageEmpty /\ NoToken) =>
          /\ pc = "fetched"
          /\ \A i \in 1..Len(page_records) :
                page_records[i].date <= window_end =>
                    page_records[i].review_id \in Ids(collected)

\* C4 witness: the loop was ended by a page that had records and no token.
C4_Witness ==
    /\ pc = "fetched"
    /\ stop = "no_token"
    /\ page_records # <<>>
    /\ collected # <<>>

\* C5: the fetch loops, and so the run, terminate for every upstream
\* behaviour (a run also ends when the configuration is rejected).
C5_RunTerminates ==
    <>(pc \in {"done", "raised", "system_exit", "value_error"})

\* C7: the engine never aborts a whole run because of a single bad page or
\* malformed record: no page outcome makes the run raise.
C7_RunNeverAborts == pc # "raised"

\* C8: on a transport failure _fetch_page returns the empty page and does not
\* raise, the loop stops without another request, and the axis result is made
\* of everything accumulated before: per bucket, the in-window records
\* accumulated so far, up to the per-rating limit.
C8_TransportFailureKeepsProgress ==
    [][ /\ (pc = "page" /\ resp'.transport = "error") =>
              /\ pc' = "fetched"
              /\ stop' = "empty"
              /\ next_token' = None
              /\ collected' = collected
              /\ seen_ids' = seen_ids
        /\ (pc = "fetched" /\ resp.transport = "error") =>
              /\ pc' = "merging"
              /\ Ids(stats') \subseteq Ids(collected)
              /\ \A score \in Ratings :
                    BucketCount(stats', score) =
                      IF per_rating_target > 0
                      THEN Min(per_rating_target,
                               InWindowCount(collected, window_start, window_end, score))
                      ELSE InWindowCount(collected, window_start, window_end, score)
      ]_vars

\* C8 witness: an axis returned records although its last page request failed.
C8_Witness ==
    /\ pc = "merging"
    /\ resp.transport = "error"
    /\ stats # <<>>

\* C9: each review id appears at most once in every merged collection and
\* every returned list, and merging a pass whose ids are all present leaves
\* the set of ids unchanged.
C9_UniqueIds ==
    /\ [](/\ NoDuplicateIds(collected)
          /\ NoDuplicateIds(stats)
          /\ NoDuplicateIds(combined_records)
          /\ NoDuplicateIds(segment)
          /\ NoDuplicateIds(combined))
    /\ [][ /\ (pc = "page" /\ pc' # "raised"
                 /\ Ids(_fetch_page(resp').records) \subseteq seen_ids) =>
                 collected' = collected
           /\ (pc = "merging" /\ Ids(stats) \subseteq Ids(combined_records)) =>
                 Ids(combined_records') = Ids(combined_records)
           /\ (pc = "returned" /\ Ids(segment) \subseteq Ids(combined)) =>
                 Ids(combined') = Ids(combined)
         ]_vars

\* C9 witness: the run returned records after a slice delivered a review that
\* an earlier slice had already delivered.
C9_Witness ==
    /\ pc = "returned"
    /\ segment # <<>>
    /\ Ids(segment) \cap Ids(combined) # {}

\* C10: every record fetch_reviews returns lies in its window, both ends
\* inclusive, and every record the multi-slice driver holds lies in one of
\* the requested slices.
C10_ReturnedInWindow ==
    /\ pc = "returned" =>
          \A i \in 1..Len(segment) : InWindow(segment[i], window_start, window_end)
    /\ \A i \in 1..Len(combined) :
          \E k \in 1..Len(window_slices) :
              InWindow(combined[i], window_slices[k][1], window_slices[k][2])

\* C10 witness: fetch_reviews returned records while the last axis had
\* collected a review older than the window.
C10_Witness ==
    /\ pc = "returned"
    /\ segment # <<>>
    /\ \E i \in 1..Len(collected) : collected[i].date < window_start

SortedDescending(records) ==
    \A i \in 1..(Len(records) - 1) : records[i].date >= records[i + 1].date

\* C11: the final output is sorted by timestamp descending: the list
\* fetch_reviews returns for one window and the list _fetch_multi_window
\* returns both have non-increasing dates from first to last element.
C11_OutputSortedDescending ==
    /\ pc = "returned" => SortedDescending(segment)
    /\ pc = "done" => SortedDescending(combined)

\* C17: with per_rating_target <= 0 the target check never ends the per-axis
\* fetch loop: the loop stops only on an empty page, a missing token or
\* max_reviews, and the axis returns every in-window record it collected.
C17_ZeroTargetIsUnlimited ==
    per_rating_target <= 0 =>
        /\ pc = "fetched" => stop \in {"empty", "no_token", "max_reviews"}
        /\ pc = "merging" =>
              \A i \in 1..Len(collected) :
                  InWindow(collected[i], window_start, window_end) =>
                      collected[i].review_id \in Ids(stats)

\* C18: a rating below 1 or above 5 is bucketed as 1 or 5 everywhere ratings
\* are bucketed, so the running counts of the fetch loop, the in-window counts
\* of fetch_reviews and the quota of the selector agree on every record's
\* bucket; the record is kept with its raw rating.
C18_RatingClampedEverywhere ==
    /\ pc \in {"page", "fetched"} =>
          \A score \in Ratings : rating_counts[score] = BucketCount(collected, score)
    /\ pc = "collected" =>
          \A score \in Ratings :
              window_counts[score] =
                  InWindowCount(combined_records, window_start, window_end, score)
    /\ (pc = "returned" /\ per_rating_target > 0) =>
          \A score \in Ratings : BucketCount(segment, score) <= per_rating_target

\* The well-formed raw records of a page, decoded.
WellFormedRecords(raws) ==
    LET ok == SelectSeq(raws, LAMBDA raw : raw.shape = "ok")
    IN  [i \in 1..Len(ok) |-> Rec(ok[i].review_id, ok[i].rating, ok[i].date)]

\* The bodies whose envelope, review list and token position decode.
EnvelopeDecodes(body) ==
    /\ body.transport = "ok"
    /\ ~EnvelopeMalformed(body)
    /\ body.last # "object"

\* C19: a raw record that lacks a required field or has an unexpected shape
\* or type is dropped silently: no exception escapes _fetch_page and every
\* well-formed record of the page is returned, in order.
C19_RecordDecodingDefensive ==
    (pc = "decode_done" /\ EnvelopeDecodes(args)) =>
        /\ ~ret.raised
        /\ ret.records = WellFormedRecords(args.raws)

\* The in-window count of every rating has reached the target, or the
\* targets are disabled.
WindowTargetsMet(records) ==
    \/ per_rating_target <= 0
    \/ \A score \in Ratings :
          InWindowCount(records, window_start, window_end, score)
            >= per_rating_target

\* C12: fetch_reviews walks the sort sequence in order and stops early: once
\* the in-window counts after merging a mode meet the targets (or the targets
\* are disabled) no later mode is fetched and no further page request is
\* issued for that window; if a rating is still below target and modes remain,
\* the next mode is fetched.
C12_EarlyStop ==
    [][ /\ pc = "merging" =>
              /\ WindowTargetsMet(combined_records') =>
                    (pc' = "collected" /\ mode_i' = mode_i /\ request' = request)
              /\ (~WindowTargetsMet(combined_records')
                    /\ mode_i < Len(sort_sequence)) =>
                    /\ mode_i' = mode_i + 1
                    /\ pc' \in {"page", "fetched"}
                    /\ next_token' = None
        /\ (pc \in {"collected", "returned"} /\ pc' = "page") =>
              slice_i' = slice_i + 1
        /\ pc' = "page" =>
              \/ mode_i' = mode_i
              \/ mode_i' = mode_i + 1 /\ slice_i' = slice_i
              \/ mode_i' = 1 /\ slice_i' = slice_i + 1
      ]_vars

\* C12 witness: fetch_reviews stopped with the targets met while a sort mode
\* of the sequence had not been fetched.
C12_Witness ==
    /\ pc = "collected"
    /\ per_rating_target > 0
    /\ mode_i < Len(sort_sequence)
    /\ WindowTargetsMet(combined_records)

\* The two terminal outcomes of fetch_reviews.
TargetsMet == WindowTargetsMet(combined_records)
AxesExhausted ==
    mode_i = Len(sort_sequence) /\ ~WindowTargetsMet(combined_records)

\* The for statement of fetch_reviews ended in exactly one outcome, and the
\* warning was emitted exactly when the axes were exhausted.
OutcomeIsExplicit ==
    pc \in {"collected", "returned"} =>
        /\ TargetsMet # AxesExhausted
        /\ warned <=> AxesExhausted

\* C13: fetch_reviews ends in exactly one of the outcomes TargetsMet and
\* AxesExhausted, the completeness warning is emitted exactly in the second,
\* and the call returns the selected records: it never ends by raising.
C13_TerminalOutcomes ==
    /\ OutcomeIsExplicit
    /\ pc = "returned" => Ids(segment) \subseteq Ids(combined_records)
    /\ pc # "raised"

\* C14: a configuration error (an unparseable date, a window or slice with
\* start > end, a malformed entry of --window-slices) is raised before any
\* network activity: never after a page request has been issued.
C14_ConfigErrorsBeforeNetwork ==
    pc \in {"system_exit", "value_error"} => ~requested

\* The instant a datetime denotes: a naive value is read as UTC.
Instant(dt) == dt.wall - (IF dt.aware THEN dt.utcoffset ELSE 0)

BothOverrides == ~args.start_date.none /\ ~args.end_date.none

\* C15: without both overrides date_window returns
\* end = reference - min_offset_days and start = end - lookback_days, and for
\* every reference date and every non-negative lookback_days and
\* min_offset_days the configuration accepts, start < end and
\* end <= reference - min_offset_days.
C15_LookbackWindow ==
    LET config    == _build_scraper_config(args.cl)
        reference == IF args.reference_date.none THEN args.now
                     ELSE Instant(args.reference_date)
    IN  (pc = "window_done" /\ ~BothOverrides
           /\ config.lookback_days >= 0 /\ config.min_offset_days >= 0) =>
            /\ ~ret.raised
            /\ ret.end.wall = reference - config.min_offset_days * TicksPerDay
            /\ ret.start.wall = ret.end.wall - config.lookback_days * TicksPerDay
            /\ ret.start.wall < ret.end.wall
            /\ ret.end.wall <= reference - config.min_offset_days * TicksPerDay

\* C16: with both overrides date_window returns exactly (start, end) in UTC,
\* whatever the reference date, lookback_days and min_offset_days; if start
\* is after end it raises and returns no window; otherwise start <= end.
C16_OverridesVerbatim ==
    (pc = "window_done" /\ BothOverrides) =>
        IF Instant(args.start_date) > Instant(args.end_date)
        THEN ret.raised /\ ret.start.none /\ ret.end.none
        ELSE /\ ~ret.raised
             /\ ret.start = Utc(Instant(args.start_date))
             /\ ret.end = Utc(Instant(args.end_date))
             /\ ret.start.wall <= ret.end.wall

\* C16 witness: a window was returned for overrides given in another zone
\* than UTC, while a reference date and a lookback were configured.
C16_Witness ==
    /\ pc = "window_done"
    /\ BothOverrides
    /\ ~ret.raised
    /\ args.start_date.aware /\ args.start_date.utcoffset # 0
    /\ ret.start.wall # args.start_date.wall
    /\ ~args.reference_date.none
    /\ args.cl.lookback_days > 0

\* What the receiver of a request reads.  The body is form-encoded, so a
\* plus sign is a space; the token lies in a JSON string (the inner command)
\* that is itself the text of a JSON string (the f.req command), so it is
\* read as the content of a JSON string twice.
UrlDecode(text) ==
    [i \in 1..Len(text) |-> IF text[i] = "+" THEN " " ELSE text[i]]

\* The content of a JSON string: a quote ends the string early, a backslash
\* must be followed by a quote or a backslash.
RECURSIVE JsonStringContent(_)
JsonStringContent(text) ==
    IF text = <<>> THEN [ok |-> TRUE, text |-> <<>>]
    ELSE IF Head(text) = "\"" THEN [ok |-> FALSE, text |-> <<>>]
    ELSE IF Head(text) = "\\"
    THEN IF Len(text) >= 2 /\ text[2] \in {"\"", "\\"}
         THEN LET rest == JsonStringContent(SubSeq(text, 3, Len(text)))
              IN  [ok |-> rest.ok,
                   text |-> IF rest.ok THEN <<text[2]>> \o rest.text ELSE <<>>]
         ELSE [ok |-> FALSE, text |-> <<>>]
    ELSE LET rest == JsonStringContent(Tail(text))
         IN  [ok |-> rest.ok,
              text |-> IF rest.ok THEN <<Head(text)>> \o rest.text ELSE <<>>]

\* The continuation token the receiver finds in a request body.
TokenReceived(body) ==
    LET outer == JsonStringContent(UrlDecode(body.token))
    IN  IF outer.ok THEN JsonStringContent(outer.text) ELSE outer

\* C20: the first request of an axis carries no continuation token (the
\* count-only cursor), every later request carries exactly the token of the
\* preceding response, and each request carries the sort code, page size and
\* rating filter it was built for.
C20_CursorProtocol ==
    pc = "body_done" =>
        /\ ret.sort = args.sort_code
        /\ ret.count = args.count
        /\ ret.score = IF args.rating_filter \in 1..5
                       THEN <<args.rating_filter>> ELSE <<>>
        /\ args.page_token.none =>
              (ret.template = "PAYLOAD_FIRST_PAGE" /\ ret.token = <<>>)
        /\ (~args.page_token.none /\ args.page_token.text # <<>>) =>
              /\ ret.template = "PAYLOAD_PAGINATED_PAGE"
              /\ TokenReceived(ret) = [ok |-> TRUE, text |-> args.page_token.text]

\* Within one axis the requests are serial and follow the cursor: the first
\* one has no token, a later one has the token the preceding response
\* returned, and the sort code and rating filter do not change.
CursorIsSerial ==
    [][ pc = "page" =>
          /\ request'.page_token = next_token
          /\ request'.sort_code = SortCode(sort_sequence[mode_i])
          /\ resp = NoResponse => request'.page_token = None
          /\ resp # NoResponse =>
                /\ request'.page_token = _fetch_page(resp).next_token
                /\ request'.sort_code = request.sort_code
                /\ request'.rating_filter = request.rating_filter
      ]_vars

----------------------------------------------------------------------------
\* C21: every page request of the fetch loop asks for a page size between 1
\* and 199, and for no more than max_reviews minus the number of records the
\* axis has accumulated when the request is made.
C21_PageSizeBounded ==
    [][pc = "page" =>
          /\ 1 <= request'.count
          /\ request'.count <= 199
          /\ request'.count <= max_reviews - Len(collected)]_vars

\* A request for less than a full page: records are accumulated, the cap is
\* near, and the loop asks for exactly what is left.
C21_Witness ==
    /\ request.page_token # None
    /\ collected # <<>>
    /\ request.count >= 1
    /\ request.count < MAX_PAGE_SIZE
    /\ Len(collected) <= max_reviews
----------------------------------------------------------------------------
\* Both ends of the window are at midnight.
DayAligned(window) ==
    /\ window.start % TicksPerDay = 0
    /\ window.end % TicksPerDay = 0

\* The number of calendar days a slice of a day-aligned window spans.
SpanDays(slice) == (slice[2] - slice[1]) \div TicksPerDay + 1

\* C22: for a day-aligned window and slice_days >= 1, _split_into_slices
\* returns slices in strictly ascending order, each of at most slice_days
\* calendar days, all but the last of exactly slice_days days, each starting
\* one day after the end of the one before; the window 2024-01-01..2024-01-14
\* with slice_days = 7 gives 01-01..01-07 and 01-08..01-14.
C22_SlicesAscendingDayAligned ==
    (pc = "split_done" /\ DayAligned(args)) =>
        /\ \A k \in 1..Len(ret) :
              /\ ret[k][1] <= ret[k][2]
              /\ SpanDays(ret[k]) <= args.slice_days
              /\ k < Len(ret) => SpanDays(ret[k]) = args.slice_days
              /\ k > 1 => /\ ret[k][1] = ret[k - 1][2] + timedelta(1)
                          /\ ret[k][1] > ret[k - 1][1]
        /\ args = TwoWeekExample =>
              ret = << <<0, timedelta(6)>>, <<timedelta(7), timedelta(13)>> >>

\* A day-aligned window cut into several slices, the last one shorter.
C22_Witness ==
    /\ pc = "split_done"
    /\ DayAligned(args)
    /\ Len(ret) >= 3
    /\ SpanDays(ret[1]) = args.slice_days
    /\ SpanDays(ret[Len(ret)]) < args.slice_days
----------------------------------------------------------------------------
\* The positions of the argument list holding in-window records of a bucket,
\* and those of them the selector admitted (ids are unique in the list).
InWindowOf(score) ==
    {i \in 1..Len(args.records) :
        /\ InWindow(args.records[i], args.window_start, args.window_end)
        /\ Bucket(args.records[i].rating) = score}

AdmittedOf(score) ==
    {i \in InWindowOf(score) : args.records[i].review_id \in Ids(ret)}

\* C23: with targets enabled the selector admits, in every bucket, the
\* per_rating_target most recent in-window records (all when fewer exist): no
\* rejected in-window record is strictly newer than an admitted one of its
\* bucket; a shortfall is reported for exactly the buckets with fewer than
\* per_rating_target in-window records.
C23_RecencyFirstGreedy ==
    (pc = "select_done" /\ args.target > 0) =>
        \A score \in Ratings :
            /\ Cardinality(AdmittedOf(score)) =
                   Min(args.target, Cardinality(InWindowOf(score)))
            /\ \A i \in InWindowOf(score) \ AdmittedOf(score) :
                   \A j \in AdmittedOf(score) :
                       ~(args.records[i].date > args.records[j].date)
            /\ (score \in shortfall) <=>
                   (Cardinality(InWindowOf(score)) < args.target)

\* A bucket with more in-window records than the target, one of them rejected
\* and older than an admitted one, while other buckets fall short.
C23_Witness ==
    /\ pc = "select_done"
    /\ args.target > 0
    /\ \E score \in Ratings :
          /\ score \notin shortfall
          /\ \E i \in InWindowOf(score) \ AdmittedOf(score) :
                \E j \in AdmittedOf(score) :
                    args.records[i].date < args.records[j].date
    /\ \E score \in Ratings :
          score \in shortfall /\ InWindowOf(score) = {}
----------------------------------------------------------------------------
\* C24: a second save_reviews call with the same list and window leaves the
\* window file and every week file as the first call left them.
C24_SaveIdempotent ==
    [][pc = "save_again" =>
          /\ saved' = saved
          /\ weekly_files' = weekly_files]_vars

\* Two calls made, with a window file of several rows and two week files.
C24_Witness ==
    /\ pc = "save_done"
    /\ \E f \in saved : Len(f.content) >= 2
    /\ Cardinality({f \in weekly_files : f.content # <<>>}) >= 2
----------------------------------------------------------------------------
\* The Monday on or before a calendar day (day 0 is a Saturday, so the
\* Mondays are the days m with m + 5 divisible by 7).
MondayOf(day) == CHOOSE m \in (day - 6)..day : (m + 5) % 7 = 0

\* The number of rows of a list of rows that hold the record.
RowsOf(rows, record) ==
    Cardinality({k \in 1..Len(rows) : rows[k] = _serialise_record(record)})

\* The week files the call wrote: those named after the week of a record.
WrittenWeekFiles ==
    {f \in weekly_files :
        \E i \in 1..Len(args.reviews_list) :
            f.name = MondayOf(DateOf(args.reviews_list[i].date))}

\* C25: after save_reviews every record is exactly once in the window file
\* and exactly once across the week files of the call, in the file of the
\* Monday of its week; every row of a week file carries the file's week
\* start and that day plus six as week end.
C25_WeekFilesPartition ==
    pc \in {"save_again", "save_done"} =>
        /\ \E f \in saved :
              /\ f.name = <<DateOf(Instant(args.start_date)),
                            DateOf(Instant(args.end_date))>>
              /\ Len(f.content) = Len(args.reviews_list)
              /\ \A i \in 1..Len(args.reviews_list) :
                    RowsOf(f.content, args.reviews_list[i]) = 1
        /\ \A i \in 1..Len(args.reviews_list) :
              LET record == args.reviews_list[i]
                  rows(f) == [k \in 1..Len(f.content) |-> f.content[k].record]
              IN  \A f \in WrittenWeekFiles :
                      RowsOf(rows(f), record) =
                          IF f.name = MondayOf(DateOf(record.date)) THEN 1 ELSE 0
        /\ \A i \in 1..Len(args.reviews_list) :
              \E f \in WrittenWeekFiles :
                  f.name = MondayOf(DateOf(args.reviews_list[i].date))
        /\ \A f \in WrittenWeekFiles :
              /\ Cardinality({g \in weekly_files : g.name = f.name}) = 1
              /\ \A k \in 1..Len(f.content) :
                    /\ f.content[k].week_start_date = f.name
                    /\ f.content[k].week_end_date = f.name + 6
                    /\ \E i \in 1..Len(args.reviews_list) :
                          f.content[k].record =
                              _serialise_record(args.reviews_list[i])

\* Records of three different weeks saved over the files of an earlier call.
C25_Witness ==
    /\ pc = "save_again"
    /\ Cardinality(WrittenWeekFiles) = 3
    /\ \E f \in WrittenWeekFiles : f.name < 0
    /\ \E i \in 1..Len(args.reviews_list) :
          args.reviews_list[i].date % TicksPerDay # 0
----------------------------------------------------------------------------
\* (weekStart, weekEnd) is the Monday-to-Sunday week of the record: weekStart
\* is a Monday at midnight, weekEnd six days later, the record's day between.
IsWeekOf(bucket, record) ==
    /\ bucket[1] % TicksPerDay = 0
    /\ (DateOf(bucket[1]) + 5) % 7 = 0
    /\ bucket[2] = bucket[1] + timedelta(6)
    /\ DateOf(bucket[1]) <= DateOf(record.date)
    /\ DateOf(record.date) <= DateOf(bucket[2])

\* The two records' days fall in the same Monday-to-Sunday week.
SameWeek == MondayOf(DateOf(args.a.date)) = MondayOf(DateOf(args.b.date))

\* C26: week_bucket returns the Monday at UTC midnight on or before the
\* record's UTC day and that Monday plus six days; two records get the same
\* bucket exactly when their days fall in the same Monday-to-Sunday week,
\* also in compute_weekly_buckets.
C26_WeekBucket ==
    pc = "week_done" =>
        /\ IsWeekOf(ret.a, args.a)
        /\ IsWeekOf(ret.b, args.b)
        /\ (ret.a = ret.b) <=> SameWeek
        /\ (Len(ret.buckets) = 1) <=> SameWeek
        /\ Len(ret.buckets) \in {1, 2}
        /\ \A k \in 1..Len(ret.buckets) :
              /\ ret.buckets[k].week_end = ret.buckets[k].week_start + 6
              /\ \A x \in {args.a, args.b} :
                    (\E n \in 1..Len(ret.buckets[k].review_ids) :
                        ret.buckets[k].review_ids[n] = x.review_id)
                    <=> ret.buckets[k].week_start = MondayOf(DateOf(x.date))

\* A Sunday afternoon and the Monday six days before it share a bucket.
C26_Witness ==
    /\ pc = "week_done"
    /\ ret.a = ret.b
    /\ DateOf(args.a.date) = DateOf(args.b.date) + 6
    /\ args.a.date % TicksPerDay # 0
    /\ Len(ret.buckets) = 1
----------------------------------------------------------------------------
\* The configured modes, primary first; None counts as the empty text.
Candidates ==
    [k \in 1..(1 + Len(args.fallback_sort_modes)) |->
        LET c == IF k = 1 THEN args.sort_mode
                          ELSE args.fallback_sort_modes[k - 1]
        IN  IF c.none THEN <<>> ELSE c.text]

LowerOf(ch) == CASE ch = "N" -> "n" [] ch = "M" -> "m" [] ch = "R" -> "r"
                 [] OTHER -> ch

\* t is the text c without its leading and trailing blanks, in lower case.
IsNormalOf(t, c) ==
    /\ t # <<>> => (t[1] # " " /\ t[Len(t)] # " ")
    /\ \E i \in 0..Len(c) :
          /\ i + Len(t) <= Len(c)
          /\ \A k \in 1..Len(c) :
                IF k <= i \/ k > i + Len(t) THEN c[k] = " "
                ELSE t[k - i] = LowerOf(c[k])

\* The first candidate t is the normal form of.
FirstOccurrence(t) ==
    CHOOSE k \in 1..Len(Candidates) :
        /\ IsNormalOf(t, Candidates[k])
        /\ \A j \in 1..(k - 1) : ~IsNormalOf(t, Candidates[j])

NonBlank(c) == \E k \in 1..Len(c) : c[k] # " "

\* C27: _build_sort_sequence returns the primary mode followed by the
\* fallback modes in configured order, lower-cased and trimmed, blank entries
\* dropped, every mode once (first occurrence kept); it is never empty and is
\* <<"newest">> when nothing remains.
C27_SortSequence ==
    pc = "sequence_done" =>
        /\ ret # <<>>
        /\ \A i \in 1..Len(ret) : \A j \in 1..Len(ret) :
              i # j => ret[i] # ret[j]
        /\ IF \E k \in 1..Len(Candidates) : NonBlank(Candidates[k])
           THEN /\ \A i \in 1..Len(ret) :
                     /\ ret[i] # <<>>
                     /\ \E k \in 1..Len(Candidates) :
                           IsNormalOf(ret[i], Candidates[k])
                /\ \A k \in 1..Len(Candidates) :
                     NonBlank(Candidates[k]) =>
                         \E i \in 1..Len(ret) : IsNormalOf(ret[i], Candidates[k])
                /\ \A i \in 1..Len(ret) : \A j \in 1..Len(ret) :
                     i < j => FirstOccurrence(ret[i]) < FirstOccurrence(ret[j])
           ELSE ret = << Newest >>

\* Two modes are kept, a third entry is dropped as a repetition of the first
\* kept mode written differently, and the primary entry is not returned as
\* written.
C27_Witness ==
    /\ pc = "sequence_done"
    /\ Len(ret) = 2
    /\ Len(Candidates) = 3
    /\ \E j \in 1..3 : \E k \in 1..3 :
          /\ j < k
          /\ Candidates[j] # Candidates[k]
          /\ IsNormalOf(ret[1], Candidates[j])
          /\ IsNormalOf(ret[1], Candidates[k])
    /\ ret[1] # Candidates[1]
----------------------------------------------------------------------------
\* C28: with targets enabled fetch_reviews returns, for every rating bucket,
\* min(per_rating_target, merged in-window records of the bucket) records;
\* when it stopped because the targets were met, per_rating_target records of
\* each of the five ratings.
C28_ReturnedPerBucket ==
    (pc = "returned" /\ per_rating_target > 0) =>
        /\ \A score \in Ratings :
              BucketCount(segment, score) =
                  Min(per_rating_target,
                      InWindowCount(combined_records, window_start,
                                    window_end, score))
        /\ ~warned =>
              \A score \in Ratings :
                  BucketCount(segment, score) = per_rating_target

\* fetch_reviews returned with a bucket that had more merged in-window
\* records than the target, and with another bucket short of it.
C28_Witness ==
    /\ pc = "returned"
    /\ per_rating_target > 0
    /\ \E score \in Ratings :
          InWindowCount(combined_records, window_start, window_end, score)
              > per_rating_target
    /\ \E score \in Ratings : BucketCount(segment, score) < per_rating_target

\* fetch_reviews returned because the targets were met.
ReturnedWithTargetsMet ==
    /\ pc = "returned"
    /\ per_rating_target > 0
    /\ ~warned
    /\ Len(combined_records) > Len(segment)
----------------------------------------------------------------------------
\* C29: the number of unique records one axis's fetch loop accumulates never
\* exceeds max_reviews when the upstream returns at most the requested page
\* size, and the number of unique records fetch_reviews merges across the
\* sort modes never exceeds max_reviews.
C29_CapBoundsCollection ==
    [][/\ (pc = "page" /\ pc' # "raised"
            /\ Len(_fetch_page(resp').records) <= request'.count)
           => Len(collected') <= max_reviews
       /\ pc = "merging" => Len(combined_records') <= max_reviews]_vars

\* The part of C29 about one axis, which holds.
AxisCapHolds ==
    [][(pc = "page" /\ pc' # "raised"
        /\ Len(_fetch_page(resp').records) <= request'.count)
           => Len(collected') <= max_reviews]_vars

\* An axis stopped at the cap although pages of the requested size arrived.
AxisStoppedAtCap ==
    /\ stop = "max_reviews"
    /\ Len(collected) = max_reviews
----------------------------------------------------------------------------
\* C30: every sort mode the command line accepts is sent to the upstream
\* with its own sort code: no two distinct modes of a sort sequence issue
\* page requests with the same sort code.
C30_DistinctSortCodes ==
    pc = "codes_done" =>
        \A i \in 1..Len(args) : \A j \in 1..Len(args) :
            args[i] # args[j] => ret[i] # ret[j]

\* The two modes SORT_CODES lists do get different codes.
ListedModesDiffer == SortCode("newest") # SortCode("most_relevant")
====
